---------------------------- MODULE Spec2Model ----------------------------
(***************************************************************************)
(* A model of the resource allocation and task-execution engine of the    *)
(* TMS transport management system (src/tms_system.py) and of the REST    *)
(* handlers of src/tms_api.py that mutate it.                             *)
(*                                                                         *)
(* Python dictionaries keep insertion order, and the scheduler and the    *)
(* effect functions iterate over them, so warehouses, equipment and tasks *)
(* are sequences of records in insertion order.  The product catalogue is *)
(* only ever looked up by key and is a function.                          *)
(***************************************************************************)
EXTENDS Integers, Sequences, FiniteSets, TLC

VARIABLES
    products,       \* TMSSystem.products: product id -> [weight, volume]
    warehouses,     \* TMSSystem.warehouses, in insertion order
    equipment,      \* TMSSystem.equipment, in insertion order
    tasks,          \* TMSSystem.tasks, in insertion (= creation) order
    obstacles,      \* PathPlanner.obstacles: set of <<x, y>>
    execution_log,  \* TMSSystem.execution_log
    ret,            \* what the last command returned to its caller
    calls           \* per request thread: where it is in assign_equipment_to_task

vars == <<products, warehouses, equipment, tasks, obstacles, execution_log, ret,
          calls>>

----------------------------------------------------------------------------
(* Bounds of the model.                                                    *)

\* at most this many tasks are created
MaxTasks == 2
\* at most this many tasks are created where the warehouses' stock is explored
MaxStockTasks == 1
\* at most this many tasks are created where the loads of cranes and frames
\* are explored
MaxLoadTasks == 1
\* quantities passed to commands and carried by tasks range up to MaxQty
MaxQty == 1
\* a command after which a warehouse would hold more than this many units of
\* a product (in absolute value) is not explored
MaxStock == 1
\* a command after which the audit log would hold more than this many lines
\* is not explored
MaxLog == 1
\* the grid of the path planner is GridWidth x GridHeight
GridWidth == 3
GridHeight == 3
\* at most this many cells are obstacles where the path planner is explored
MaxObstacles == 2

----------------------------------------------------------------------------
(* Values of the program.                                                  *)

\* Python's None, where the other values of the field are strings
NULL == "None"
\* Task.deadline is None
NoDeadline == -1
\* datetime.max, the sort key of a task without deadline
DatetimeMax == 9999

PENDING == "pending"
IN_PROGRESS == "in_progress"
COMPLETED == "completed"
FAILED == "failed"
CANCELLED == "cancelled"

SHIP_TRANSPORT == "ship_transport"
INTERNAL_TRANSFER == "internal_transfer"
LOADING == "loading"
UNLOADING == "unloading"
MOVE_EQUIPMENT == "move_equipment"

IDLE == "idle"
BUSY == "busy"
MAINTENANCE == "maintenance"
ERROR == "error"

TERMINAL == "terminal"
PRODUCT == "product"

Crane == "Crane"
FrameTruck == "FrameTruck"
Frame == "Frame"

----------------------------------------------------------------------------
(* Dictionaries in insertion order.                                        *)

\* the keys of the dictionary, as a set
Ids(d) == {d[i].id : i \in 1..Len(d)}

\* the position of key id in the dictionary (0 when absent)
IndexOf(d, id) ==
    IF id \in Ids(d) THEN CHOOSE i \in 1..Len(d) : d[i].id = id ELSE 0

\* d[id]
Get(d, id) == d[IndexOf(d, id)]

\* d[rec.id] = rec: a new key goes last, an existing key keeps its place
Put(d, rec) ==
    IF rec.id \in Ids(d) THEN [d EXCEPT ![IndexOf(d, rec.id)] = rec]
    ELSE Append(d, rec)

Abs(n) == IF n < 0 THEN -n ELSE n

\* the empty dict {}
EmptyDict == [k \in {} |-> 0]

\* dict.get(key, 0)
GetOr0(f, k) == IF k \in DOMAIN f THEN f[k] ELSE 0

\* f[k] = v
DictSet(f, k, v) == [x \in DOMAIN f \cup {k} |-> IF x = k THEN v ELSE f[x]]

\* del f[k]
DictDel(f, k) == [x \in DOMAIN f \ {k} |-> f[x]]

----------------------------------------------------------------------------
(* What a command hands back to its caller.                                *)

\* ok: the boolean the command returned (for a factory, whether it returned
\* an object); raised: an exception left the command; schedule: the list
\* optimize_task_schedule returned; path: the list a_star_path returned
Ret(ok) == [ok |-> ok, raised |-> FALSE, schedule |-> <<>>, path |-> <<>>]

----------------------------------------------------------------------------
(* Position.                                                               *)

distance_to(a, b) == Abs(a[1] - b[1]) + Abs(a[2] - b[2])

----------------------------------------------------------------------------
(* PathPlanner.  A position is <<x, y>>; an entry of the open set is the   *)
(* tuple <<f, position>>.                                                  *)

\* PathPlanner.heuristic
heuristic(pos1, pos2) == Abs(pos1[1] - pos2[1]) + Abs(pos1[2] - pos2[2])

\* PathPlanner.get_neighbors: up, right, down, left, inside the grid and
\* not an obstacle
get_neighbors(position) ==
    LET directions == << <<0, 1>>, <<1, 0>>, <<0, -1>>, <<-1, 0>> >>
        cell(i) == <<position[1] + directions[i][1], position[2] + directions[i][2]>>
        open(c) == /\ 0 <= c[1] /\ c[1] < GridWidth
                   /\ 0 <= c[2] /\ c[2] < GridHeight
                   /\ c \notin obstacles IN
    SelectSeq([i \in 1..4 |-> cell(i)], open)

\* a < b on two tuples (f, Position): the first components decide when they
\* differ; equal tuples are not less; otherwise Python compares the two
\* Position objects with <, which the dataclass does not define
TupleLess(a, b) ==
    IF a[1] # b[1] THEN (IF a[1] < b[1] THEN "less" ELSE "not less")
    ELSE IF a[2] = b[2] THEN "not less"
    ELSE "TypeError"

\* heapq._siftdown, newitem being the entry held at pos:
\* [heap, err: a comparison raised TypeError]
RECURSIVE siftdown(_, _, _, _)
siftdown(heap, newitem, startpos, pos) ==
    IF pos > startpos
    THEN LET parentpos == pos \div 2
             c == TupleLess(newitem, heap[parentpos]) IN
         IF c = "TypeError" THEN [heap |-> heap, err |-> TRUE]
         ELSE IF c = "less"
         THEN siftdown([heap EXCEPT ![pos] = heap[parentpos]], newitem,
                       startpos, parentpos)
         ELSE [heap |-> [heap EXCEPT ![pos] = newitem], err |-> FALSE]
    ELSE [heap |-> [heap EXCEPT ![pos] = newitem], err |-> FALSE]

\* heapq.heappush
heappush(heap, item) == siftdown(Append(heap, item), item, 1, Len(heap) + 1)

\* heapq._siftup: the smaller child is moved up until a leaf is reached,
\* then newitem is sifted down from there
RECURSIVE siftup(_, _, _)
siftup(heap, newitem, pos) ==
    LET childpos == 2 * pos
        rightpos == childpos + 1 IN
    IF childpos <= Len(heap)
    THEN LET c == IF rightpos <= Len(heap)
                  THEN TupleLess(heap[childpos], heap[rightpos])
                  ELSE "less" IN
         IF c = "TypeError" THEN [heap |-> heap, err |-> TRUE]
         ELSE LET child == IF c = "less" THEN childpos ELSE rightpos IN
              siftup([heap EXCEPT ![pos] = heap[child]], newitem, child)
    ELSE siftdown([heap EXCEPT ![pos] = newitem], newitem, 1, pos)

\* heapq.heappop on a non-empty heap: [item, heap, err]
heappop(heap) ==
    LET lastelt == heap[Len(heap)]
        rest == SubSeq(heap, 1, Len(heap) - 1) IN
    IF rest = <<>> THEN [item |-> lastelt, heap |-> <<>>, err |-> FALSE]
    ELSE LET r == siftup([rest EXCEPT ![1] = lastelt], lastelt, 1) IN
         [item |-> rest[1], heap |-> r.heap, err |-> r.err]

\* the walk back from current along came_from, current first
RECURSIVE walk_back(_, _)
walk_back(current_pos, came_from) ==
    IF current_pos \in DOMAIN came_from
    THEN <<current_pos>> \o walk_back(came_from[current_pos], came_from)
    ELSE <<>>

\* list.reverse
Reverse(s) == [i \in 1..Len(s) |-> s[Len(s) + 1 - i]]

\* the loop of a_star_path over the neighbours of current, on
\* [open_set, came_from, g_score, err]
RECURSIVE relax(_, _, _, _)
relax(neighbors, current, goal, st) ==
    IF neighbors = <<>> \/ st.err THEN st
    ELSE LET neighbor == Head(neighbors)
             tentative_g_score == st.g_score[current] + 1 IN
         IF neighbor \notin DOMAIN st.g_score
               \/ tentative_g_score < st.g_score[neighbor]
         THEN LET f == tentative_g_score + heuristic(neighbor, goal)
                  h == heappush(st.open_set, <<f, neighbor>>) IN
              relax(Tail(neighbors), current, goal,
                    [open_set |-> h.heap,
                     came_from |-> DictSet(st.came_from, neighbor, current),
                     g_score |-> DictSet(st.g_score, neighbor, tentative_g_score),
                     err |-> h.err])
         ELSE relax(Tail(neighbors), current, goal, st)

\* the while loop of a_star_path: [path, raised]
RECURSIVE search(_, _, _)
search(start, goal, st) ==
    IF st.err THEN [path |-> <<>>, raised |-> TRUE]
    ELSE IF st.open_set = <<>> THEN [path |-> <<>>, raised |-> FALSE]
    ELSE LET p == heappop(st.open_set)
             current == p.item[2] IN
         IF p.err THEN [path |-> <<>>, raised |-> TRUE]
         ELSE IF current = goal
         THEN [path |-> Reverse(walk_back(current, st.came_from) \o <<start>>),
               raised |-> FALSE]
         ELSE search(start, goal,
                     relax(get_neighbors(current), current, goal,
                           [st EXCEPT !.open_set = p.heap]))

\* PathPlanner.a_star_path(start, goal) on the obstacles of the state:
\* [path: the list returned, raised: a TypeError left the call]
AStar(start, goal) ==
    IF start \in obstacles \/ goal \in obstacles
    THEN [path |-> <<>>, raised |-> FALSE]
    ELSE search(start, goal,
                [open_set |-> << <<0, start>> >>,
                 came_from |-> [k \in {} |-> <<0, 0>>],
                 g_score |-> [k \in {start} |-> 0],
                 err |-> FALSE])

\* PathPlanner.add_obstacle(position)
add_obstacle(position) ==
    /\ obstacles' = obstacles \cup {position}
    /\ ret' = Ret(TRUE)
    /\ UNCHANGED <<products, warehouses, equipment, tasks, execution_log, calls>>

\* PathPlanner.remove_obstacle(position)
remove_obstacle(position) ==
    /\ obstacles' = obstacles \ {position}
    /\ ret' = Ret(TRUE)
    /\ UNCHANGED <<products, warehouses, equipment, tasks, execution_log, calls>>

\* PathPlanner.a_star_path(start, goal)
a_star_path(start, goal) ==
    /\ LET r == AStar(start, goal) IN
       ret' = [Ret(r.path # <<>>) EXCEPT !.raised = r.raised, !.path = r.path]
    /\ UNCHANGED <<products, warehouses, equipment, tasks, obstacles, execution_log, calls>>

----------------------------------------------------------------------------
(* Warehouse.                                                              *)

\* Warehouse.__init__
NewWarehouse(id, wtype, position, capacity) ==
    [id |-> id, warehouse_type |-> wtype, position |-> position,
     capacity |-> capacity, products |-> EmptyDict, current_volume |-> 0]

\* an add that also turns away what would fill the warehouse exactly
Warehouse_add_product_below(w, product_id, quantity, product_volume) ==
    LET total_volume == product_volume * quantity IN
    IF w.current_volume + total_volume >= w.capacity THEN <<w, FALSE>>
    ELSE <<[w EXCEPT
              !.products = DictSet(w.products, product_id,
                                   GetOr0(w.products, product_id) + quantity),
              !.current_volume = w.current_volume + total_volume],
           TRUE>>

\* Warehouse.add_product: <<the warehouse afterwards, the value returned>>
Warehouse_add_product(w, product_id, quantity, product_volume) ==
    LET total_volume == product_volume * quantity IN
    IF w.current_volume + total_volume > w.capacity THEN <<w, FALSE>>
    ELSE <<[w EXCEPT
              !.products = DictSet(w.products, product_id,
                                   GetOr0(w.products, product_id) + quantity),
              !.current_volume = w.current_volume + total_volume],
           TRUE>>

\* Warehouse.remove_product: <<the warehouse afterwards, the value returned>>
Warehouse_remove_product(w, product_id, quantity, product_volume) ==
    IF product_id \notin DOMAIN w.products \/ w.products[product_id] < quantity
    THEN <<w, FALSE>>
    ELSE LET left == w.products[product_id] - quantity IN
         <<[w EXCEPT
              !.products = IF left = 0 THEN DictDel(w.products, product_id)
                           ELSE DictSet(w.products, product_id, left),
              !.current_volume = w.current_volume - product_volume * quantity],
           TRUE>>

----------------------------------------------------------------------------
(* Commands on the catalogue and on the warehouses.                        *)

\* the request threads of the development server (app.run serves each
\* request on a thread of its own, all sharing the global tms_system)
Callers == {"A", "B"}

\* a thread that is not inside assign_equipment_to_task
NoCall == [pc |-> "idle", task_id |-> NULL, equipment_id |-> NULL]

\* TMSSystem.__init__
Init ==
    /\ products = EmptyDict
    /\ warehouses = <<>>
    /\ equipment = <<>>
    /\ tasks = <<>>
    /\ obstacles = {}
    /\ execution_log = <<>>
    /\ ret = Ret(TRUE)
    /\ calls = [c \in Callers |-> NoCall]

\* TMSSystem.add_product(Product(id, weight, volume)); db_ok: save_product
\* does not raise
add_product(id, weight, volume, db_ok) ==
    /\ products' = DictSet(products, id, [weight |-> weight, volume |-> volume])
    /\ ret' = Ret(db_ok)
    /\ UNCHANGED <<warehouses, equipment, tasks, obstacles, execution_log, calls>>

\* PUT /api/products/<id> with a new weight and volume
update_product(id, weight, volume, db_ok) ==
    /\ id \in DOMAIN products
    /\ products' = [products EXCEPT ![id] = [weight |-> weight, volume |-> volume]]
    /\ ret' = Ret(db_ok)
    /\ UNCHANGED <<warehouses, equipment, tasks, obstacles, execution_log, calls>>

\* TMSSystem.add_warehouse(warehouse)
add_warehouse(id, wtype, position, capacity, db_ok) ==
    /\ warehouses' = Put(warehouses, NewWarehouse(id, wtype, position, capacity))
    /\ ret' = Ret(db_ok)
    /\ UNCHANGED <<products, equipment, tasks, obstacles, execution_log, calls>>

\* warehouse.add_product(product_id, quantity, product.volume) on a
\* registered warehouse, for a registered product
warehouse_add_product(wid, product_id, quantity) ==
    /\ wid \in Ids(warehouses)
    /\ product_id \in DOMAIN products
    /\ LET r == Warehouse_add_product(Get(warehouses, wid), product_id, quantity,
                                      products[product_id].volume) IN
       /\ warehouses' = Put(warehouses, r[1])
       /\ ret' = Ret(r[2])
    /\ UNCHANGED <<products, equipment, tasks, obstacles, execution_log, calls>>

\* warehouse.remove_product(product_id, quantity, product.volume)
warehouse_remove_product(wid, product_id, quantity) ==
    /\ wid \in Ids(warehouses)
    /\ product_id \in DOMAIN products
    /\ LET r == Warehouse_remove_product(Get(warehouses, wid), product_id, quantity,
                                         products[product_id].volume) IN
       /\ warehouses' = Put(warehouses, r[1])
       /\ ret' = Ret(r[2])
    /\ UNCHANGED <<products, equipment, tasks, obstacles, execution_log, calls>>

----------------------------------------------------------------------------
(* Equipment.                                                              *)

\* Equipment.__init__ and the constructors of Crane, FrameTruck and Frame
NewEquipment(id, kind, position, capacity) ==
    [id |-> id, kind |-> kind, position |-> position, status |-> IDLE,
     current_task_id |-> NULL, capacity |-> capacity, current_load |-> 0,
     products |-> EmptyDict]

\* an equipment that takes every type of task
can_perform_anything(e, task_type) == TRUE

\* Crane.can_perform_task, FrameTruck.can_perform_task, Frame.can_perform_task
can_perform_task(e, task_type) ==
    CASE e.kind = Crane -> task_type \in {LOADING, UNLOADING, MOVE_EQUIPMENT}
      [] e.kind = FrameTruck -> task_type \in {SHIP_TRANSPORT, INTERNAL_TRANSFER}
      [] OTHER -> FALSE

\* a load that also turns away what would land exactly on the capacity
Crane_load_product_below(e, product, quantity) ==
    LET total_weight == product.weight * quantity IN
    IF e.current_load + total_weight >= e.capacity THEN <<e, FALSE>>
    ELSE <<[e EXCEPT !.current_load = e.current_load + total_weight], TRUE>>

\* Crane.load_product: <<the crane afterwards, the value returned>>
Crane_load_product(e, product, quantity) ==
    LET total_weight == product.weight * quantity IN
    IF e.current_load + total_weight > e.capacity THEN <<e, FALSE>>
    ELSE <<[e EXCEPT !.current_load = e.current_load + total_weight], TRUE>>

\* Crane.unload_product: <<the crane afterwards, the value returned>>
Crane_unload_product(e, product, quantity) ==
    LET total_weight == product.weight * quantity IN
    IF e.current_load < total_weight THEN <<e, FALSE>>
    ELSE <<[e EXCEPT !.current_load = e.current_load - total_weight], TRUE>>

\* Frame.load_product: <<the frame afterwards, the value returned>>
Frame_load_product(e, product_id, quantity, product_weight) ==
    LET total_weight == product_weight * quantity IN
    IF e.current_load + total_weight > e.capacity THEN <<e, FALSE>>
    ELSE <<[e EXCEPT
              !.products = DictSet(e.products, product_id,
                                   GetOr0(e.products, product_id) + quantity),
              !.current_load = e.current_load + total_weight],
           TRUE>>

\* Frame.unload_product: <<the frame afterwards, the value returned>>
Frame_unload_product(e, product_id, quantity, product_weight) ==
    IF product_id \notin DOMAIN e.products \/ e.products[product_id] < quantity
    THEN <<e, FALSE>>
    ELSE LET left == e.products[product_id] - quantity IN
         <<[e EXCEPT
              !.products = IF left = 0 THEN DictDel(e.products, product_id)
                           ELSE DictSet(e.products, product_id, left),
              !.current_load = e.current_load - product_weight * quantity],
           TRUE>>

\* Equipment.move_to: <<the equipment afterwards, the value returned>>.  The
\* status is Busy only inside the call.
Equipment_move_to(e, target_position) ==
    IF e.status # IDLE THEN <<e, FALSE>>
    ELSE <<[e EXCEPT !.position = target_position, !.status = IDLE], TRUE>>

\* a registration that leaves the path planner alone
add_equipment_no_obstacle(id, kind, position, capacity) ==
    /\ equipment' = Put(equipment, NewEquipment(id, kind, position, capacity))
    /\ ret' = Ret(TRUE)
    /\ UNCHANGED <<products, warehouses, tasks, obstacles, execution_log, calls>>

\* TMSSystem.add_equipment(equipment)
add_equipment(id, kind, position, capacity) ==
    /\ equipment' = Put(equipment, NewEquipment(id, kind, position, capacity))
    /\ obstacles' = obstacles \cup {position}
    /\ ret' = Ret(TRUE)
    /\ UNCHANGED <<products, warehouses, tasks, execution_log, calls>>

\* equipment.load_product(...) on a registered Crane or Frame, for a
\* registered product
load_product(eid, product_id, quantity) ==
    /\ eid \in Ids(equipment)
    /\ product_id \in DOMAIN products
    /\ Get(equipment, eid).kind \in {Crane, Frame}
    /\ LET e == Get(equipment, eid)
           r == IF e.kind = Crane
                THEN Crane_load_product(e, products[product_id], quantity)
                ELSE Frame_load_product(e, product_id, quantity,
                                        products[product_id].weight) IN
       /\ equipment' = Put(equipment, r[1])
       /\ ret' = Ret(r[2])
    /\ UNCHANGED <<products, warehouses, tasks, obstacles, execution_log, calls>>

\* equipment.unload_product(...) on a registered Crane or Frame
unload_product(eid, product_id, quantity) ==
    /\ eid \in Ids(equipment)
    /\ product_id \in DOMAIN products
    /\ Get(equipment, eid).kind \in {Crane, Frame}
    /\ LET e == Get(equipment, eid)
           r == IF e.kind = Crane
                THEN Crane_unload_product(e, products[product_id], quantity)
                ELSE Frame_unload_product(e, product_id, quantity,
                                          products[product_id].weight) IN
       /\ equipment' = Put(equipment, r[1])
       /\ ret' = Ret(r[2])
    /\ UNCHANGED <<products, warehouses, tasks, obstacles, execution_log, calls>>

\* equipment.move_to(target_position) on a registered equipment
move_to(eid, target_position) ==
    /\ eid \in Ids(equipment)
    /\ LET r == Equipment_move_to(Get(equipment, eid), target_position) IN
       /\ equipment' = Put(equipment, r[1])
       /\ ret' = Ret(r[2])
    /\ UNCHANGED <<products, warehouses, tasks, obstacles, execution_log, calls>>

----------------------------------------------------------------------------
(* Task.                                                                   *)

\* the ids uuid4 hands out, in the order of creation
TaskIdPool == <<"T1", "T2", "T3", "T4", "T5">>

\* Task(id="", ...): a Pending task without equipment.  A timestamp is None
\* or "set".
NewTask(id, task_type, priority, deadline, metadata, sub_tasks) ==
    [id |-> id, task_type |-> task_type, priority |-> priority,
     status |-> PENDING, start_time |-> NULL, end_time |-> NULL,
     deadline |-> deadline, assigned_equipment |-> NULL,
     sub_tasks |-> sub_tasks, metadata |-> metadata]

\* Task.start_execution
start_execution(t) == [t EXCEPT !.status = IN_PROGRESS, !.start_time = "set"]

\* a completion that stamps the end time and leaves the status alone
complete_task_unfinished(t) == [t EXCEPT !.end_time = "set"]

\* Task.complete_task
complete_task(t) == [t EXCEPT !.status = COMPLETED, !.end_time = "set"]

\* a failure that sets the terminal status and records no reason
fail_task_silent(t, reason) ==
    [t EXCEPT !.status = FAILED, !.end_time = "set"]

\* Task.fail_task
fail_task(t, reason) ==
    [t EXCEPT !.status = FAILED, !.end_time = "set",
              !.metadata = DictSet(t.metadata, "failure_reason", reason)]

\* the two sub-tasks create_ship_transport_task makes per product line
RECURSIVE ShipSubTasks(_)
ShipSubTasks(lines) ==
    IF lines = <<>> THEN <<>>
    ELSE LET md == [product_id |-> Head(lines)[1], quantity |-> Head(lines)[2]] IN
         << [task_type |-> LOADING, status |-> PENDING, metadata |-> md],
            [task_type |-> SHIP_TRANSPORT, status |-> PENDING, metadata |-> md] >>
         \o ShipSubTasks(Tail(lines))

\* TMSSystem.create_ship_transport_task(ship_plan); a dict of products is the
\* sequence of its <<product id, quantity>> items
create_ship_transport_task(plan_id, plan_products, priority, deadline, db_ok) ==
    /\ LET id == TaskIdPool[Len(tasks) + 1]
           md == [ship_plan_id |-> plan_id, products |-> plan_products,
                  ship_name |-> "", destination |-> ""] IN
       /\ tasks' = Put(tasks, NewTask(id, SHIP_TRANSPORT, priority, deadline, md,
                                      ShipSubTasks(plan_products)))
       /\ ret' = Ret(db_ok)
    /\ UNCHANGED <<products, warehouses, equipment, obstacles, execution_log, calls>>

\* TMSSystem.create_internal_transfer_task(source, target, products)
create_internal_transfer_task(source_id, target_id, transfer_products, db_ok) ==
    /\ LET id == TaskIdPool[Len(tasks) + 1]
           md == [source_warehouse_id |-> source_id,
                  target_warehouse_id |-> target_id,
                  products |-> transfer_products] IN
       /\ tasks' = Put(tasks, NewTask(id, INTERNAL_TRANSFER, 1, NoDeadline, md, <<>>))
       /\ ret' = Ret(db_ok)
    /\ UNCHANGED <<products, warehouses, equipment, obstacles, execution_log, calls>>

\* tms.tasks[task.id] = Task("", task_type, priority, deadline=deadline,
\* metadata={'product_id': ..., 'quantity': ...}): the only way a Loading,
\* Unloading or MoveEquipment task enters the store
store_task(task_type, priority, deadline, product_id, quantity) ==
    /\ LET id == TaskIdPool[Len(tasks) + 1]
           md == [product_id |-> product_id, quantity |-> quantity] IN
       /\ tasks' = Put(tasks, NewTask(id, task_type, priority, deadline, md, <<>>))
       /\ ret' = Ret(TRUE)
    /\ UNCHANGED <<products, warehouses, equipment, obstacles, execution_log, calls>>

----------------------------------------------------------------------------
(* Assignment.                                                             *)

\* an assignment that names the equipment in the task and leaves the
\* equipment as it was
assign_task_only(ts, eqs, task_id, equipment_id) ==
    IF task_id \notin Ids(ts) \/ equipment_id \notin Ids(eqs)
    THEN [tasks |-> ts, eq |-> eqs, ok |-> FALSE]
    ELSE [tasks |-> Put(ts, [Get(ts, task_id) EXCEPT
                               !.assigned_equipment = equipment_id]),
          eq |-> eqs, ok |-> TRUE]

\* an assignment that names the equipment in the task before it looks at the
\* status of the equipment
assign_before_check(ts, eqs, task_id, equipment_id) ==
    IF task_id \notin Ids(ts) \/ equipment_id \notin Ids(eqs)
    THEN [tasks |-> ts, eq |-> eqs, ok |-> FALSE]
    ELSE LET task == Get(ts, task_id)
             e == Get(eqs, equipment_id)
             named == Put(ts, [task EXCEPT !.assigned_equipment = equipment_id]) IN
         IF ~can_perform_task(e, task.task_type)
         THEN [tasks |-> ts, eq |-> eqs, ok |-> FALSE]
         ELSE IF e.status # IDLE
         THEN [tasks |-> named, eq |-> eqs, ok |-> FALSE]
         ELSE [tasks |-> named,
               eq |-> Put(eqs, [e EXCEPT !.current_task_id = task_id,
                                         !.status = BUSY]),
               ok |-> TRUE]

\* TMSSystem.assign_equipment_to_task on the given tasks and equipment:
\* [tasks, eq: the two dictionaries afterwards, ok: the value returned]
assign_equipment(ts, eqs, task_id, equipment_id) ==
    IF task_id \notin Ids(ts) \/ equipment_id \notin Ids(eqs)
    THEN [tasks |-> ts, eq |-> eqs, ok |-> FALSE]
    ELSE LET task == Get(ts, task_id)
             e == Get(eqs, equipment_id) IN
         IF ~can_perform_task(e, task.task_type)
         THEN [tasks |-> ts, eq |-> eqs, ok |-> FALSE]
         ELSE IF e.status # IDLE
         THEN [tasks |-> ts, eq |-> eqs, ok |-> FALSE]
         ELSE [tasks |-> Put(ts, [task EXCEPT !.assigned_equipment = equipment_id]),
               eq |-> Put(eqs, [e EXCEPT !.current_task_id = task_id,
                                         !.status = BUSY]),
               ok |-> TRUE]

\* TMSSystem.assign_equipment_to_task(task_id, equipment_id)
assign_equipment_to_task(task_id, equipment_id) ==
    LET r == assign_equipment(tasks, equipment, task_id, equipment_id) IN
    /\ tasks' = r.tasks
    /\ equipment' = r.eq
    /\ ret' = Ret(r.ok)
    /\ UNCHANGED <<products, warehouses, obstacles, execution_log, calls>>

\* TMSSystem.assign_equipment_to_task as thread c runs it, up to the last
\* check: the lookups and the three early returns. Nothing is locked, so
\* another thread may run between this step and assign_write.
assign_check(c, task_id, equipment_id) ==
    /\ calls[c].pc = "idle"
    /\ IF task_id \notin Ids(tasks) \/ equipment_id \notin Ids(equipment)
       THEN ret' = Ret(FALSE) /\ UNCHANGED calls
       ELSE IF ~can_perform_task(Get(equipment, equipment_id),
                                 Get(tasks, task_id).task_type)
       THEN ret' = Ret(FALSE) /\ UNCHANGED calls
       ELSE IF Get(equipment, equipment_id).status # IDLE
       THEN ret' = Ret(FALSE) /\ UNCHANGED calls
       ELSE /\ calls' = [calls EXCEPT ![c] = [pc |-> "checked", task_id |-> task_id,
                                               equipment_id |-> equipment_id]]
            /\ UNCHANGED ret
    /\ UNCHANGED <<products, warehouses, equipment, tasks, obstacles, execution_log>>

\* the three writes of assign_equipment_to_task and its return, by a thread
\* that passed the checks
assign_write(c) ==
    /\ calls[c].pc = "checked"
    /\ tasks' = Put(tasks, [Get(tasks, calls[c].task_id) EXCEPT
                              !.assigned_equipment = calls[c].equipment_id])
    /\ equipment' = Put(equipment, [Get(equipment, calls[c].equipment_id) EXCEPT
                                      !.current_task_id = calls[c].task_id,
                                      !.status = BUSY])
    /\ ret' = Ret(TRUE)
    /\ calls' = [calls EXCEPT ![c] = NoCall]
    /\ UNCHANGED <<products, warehouses, obstacles, execution_log>>

----------------------------------------------------------------------------
(* Executor.  An effect function works on                                  *)
(*   [wh: the warehouses, eq: the equipment, log: the audit log,           *)
(*    err: NoError, or the exception that ended the effect]                *)
(* and what it changed before raising stays changed.                       *)

\* no exception was raised
NoError == [exc |-> NULL, key |-> NULL]

\* str(e) of the KeyError a failed dictionary lookup raises
KeyError(key) == [exc |-> "KeyError", key |-> key]

\* the exception DatabaseManager.save_task raises when the database fails
SaveError == [exc |-> "sqlite3.Error", key |-> "save_task"]

\* the lowest element of a non-empty set of numbers
SetMin(S) == CHOOSE x \in S : \A y \in S : x <= y

\* a scan that takes the first warehouse of any type holding the quantity
FirstStockedWarehouse(whs, product_id, quantity) ==
    LET holders == {i \in 1..Len(whs) :
                      /\ product_id \in DOMAIN whs[i].products
                      /\ whs[i].products[product_id] >= quantity} IN
    IF holders = {} THEN 0 ELSE SetMin(holders)

\* in _execute_ship_transport_task: the index of the first ProductWarehouse,
\* in dictionary order, holding at least quantity of the product (0: none)
FirstStockedProductWarehouse(whs, product_id, quantity) ==
    LET holders == {i \in 1..Len(whs) :
                      /\ whs[i].warehouse_type = PRODUCT
                      /\ product_id \in DOMAIN whs[i].products
                      /\ whs[i].products[product_id] >= quantity} IN
    IF holders = {} THEN 0 ELSE SetMin(holders)

\* the loop of _execute_ship_transport_task over the product lines
RECURSIVE ship_transport_lines(_, _)
ship_transport_lines(lines, st) ==
    IF lines = <<>> \/ st.err # NoError THEN st
    ELSE LET product_id == Head(lines)[1]
             quantity == Head(lines)[2]
             i == FirstStockedProductWarehouse(st.wh, product_id, quantity) IN
         IF i = 0 THEN ship_transport_lines(Tail(lines), st)
         ELSE IF product_id \notin DOMAIN products
         THEN [st EXCEPT !.err = KeyError(product_id)]
         ELSE ship_transport_lines(Tail(lines),
                [st EXCEPT
                   !.wh[i] = Warehouse_remove_product(st.wh[i], product_id, quantity,
                                 products[product_id].volume)[1],
                   !.log = Append(st.log, [line |-> "removed", from |-> st.wh[i].id,
                                           to |-> NULL, quantity |-> quantity,
                                           product |-> product_id])])

\* TMSSystem._execute_ship_transport_task
execute_ship_transport_task(task, st) ==
    IF "products" \in DOMAIN task.metadata
    THEN ship_transport_lines(task.metadata.products, st)
    ELSE st

\* the loop of _execute_internal_transfer_task over the product lines
RECURSIVE internal_transfer_lines(_, _, _, _)
internal_transfer_lines(lines, source_id, target_id, st) ==
    IF lines = <<>> \/ st.err # NoError THEN st
    ELSE LET product_id == Head(lines)[1]
             quantity == Head(lines)[2]
             s == IndexOf(st.wh, source_id)
             t == IndexOf(st.wh, target_id) IN
         IF ~(/\ product_id \in DOMAIN st.wh[s].products
              /\ st.wh[s].products[product_id] >= quantity)
         THEN internal_transfer_lines(Tail(lines), source_id, target_id, st)
         ELSE IF product_id \notin DOMAIN products
         THEN [st EXCEPT !.err = KeyError(product_id)]
         ELSE LET volume == products[product_id].volume
                  removed == [st.wh EXCEPT ![s] =
                      Warehouse_remove_product(st.wh[s], product_id, quantity, volume)[1]]
                  added == [removed EXCEPT ![t] =
                      Warehouse_add_product(removed[t], product_id, quantity, volume)[1]] IN
              internal_transfer_lines(Tail(lines), source_id, target_id,
                [st EXCEPT
                   !.wh = added,
                   !.log = Append(st.log, [line |-> "transferred", from |-> source_id,
                                           to |-> target_id, quantity |-> quantity,
                                           product |-> product_id])])

\* TMSSystem._execute_internal_transfer_task
execute_internal_transfer_task(task, st) ==
    IF "source_warehouse_id" \notin DOMAIN task.metadata
    THEN [st EXCEPT !.err = KeyError("source_warehouse_id")]
    ELSE IF "target_warehouse_id" \notin DOMAIN task.metadata
    THEN [st EXCEPT !.err = KeyError("target_warehouse_id")]
    ELSE IF "products" \notin DOMAIN task.metadata
    THEN [st EXCEPT !.err = KeyError("products")]
    ELSE IF task.metadata.source_warehouse_id \notin Ids(st.wh)
    THEN [st EXCEPT !.err = KeyError(task.metadata.source_warehouse_id)]
    ELSE IF task.metadata.target_warehouse_id \notin Ids(st.wh)
    THEN [st EXCEPT !.err = KeyError(task.metadata.target_warehouse_id)]
    ELSE internal_transfer_lines(task.metadata.products,
                                 task.metadata.source_warehouse_id,
                                 task.metadata.target_warehouse_id, st)

\* TMSSystem._execute_loading_task
execute_loading_task(task, st) ==
    IF "product_id" \notin DOMAIN task.metadata
    THEN [st EXCEPT !.err = KeyError("product_id")]
    ELSE IF "quantity" \notin DOMAIN task.metadata
    THEN [st EXCEPT !.err = KeyError("quantity")]
    ELSE LET product_id == task.metadata.product_id
             quantity == task.metadata.quantity
             available_cranes == {i \in 1..Len(st.eq) :
                                    st.eq[i].kind = Crane /\ st.eq[i].status = IDLE} IN
         IF available_cranes = {} THEN st
         ELSE IF product_id \notin DOMAIN products
         THEN [st EXCEPT !.err = KeyError(product_id)]
         ELSE LET c == SetMin(available_cranes) IN
              [st EXCEPT
                 !.eq[c] = Crane_load_product(st.eq[c], products[product_id], quantity)[1],
                 !.log = Append(st.log, [line |-> "loaded", from |-> st.eq[c].id,
                                         to |-> NULL, quantity |-> quantity,
                                         product |-> product_id])]

\* TMSSystem._execute_unloading_task
execute_unloading_task(task, st) ==
    IF "product_id" \notin DOMAIN task.metadata
    THEN [st EXCEPT !.err = KeyError("product_id")]
    ELSE IF "quantity" \notin DOMAIN task.metadata
    THEN [st EXCEPT !.err = KeyError("quantity")]
    ELSE LET product_id == task.metadata.product_id
             quantity == task.metadata.quantity
             loaded_cranes == {i \in 1..Len(st.eq) :
                                 st.eq[i].kind = Crane /\ st.eq[i].current_load > 0} IN
         IF loaded_cranes = {} THEN st
         ELSE IF product_id \notin DOMAIN products
         THEN [st EXCEPT !.err = KeyError(product_id)]
         ELSE LET c == SetMin(loaded_cranes) IN
              [st EXCEPT
                 !.eq[c] = Crane_unload_product(st.eq[c], products[product_id], quantity)[1],
                 !.log = Append(st.log, [line |-> "unloaded", from |-> st.eq[c].id,
                                         to |-> NULL, quantity |-> quantity,
                                         product |-> product_id])]

\* the dispatch of execute_task on the task's type
task_effect(task, st) ==
    CASE task.task_type = SHIP_TRANSPORT -> execute_ship_transport_task(task, st)
      [] task.task_type = INTERNAL_TRANSFER -> execute_internal_transfer_task(task, st)
      [] task.task_type = LOADING -> execute_loading_task(task, st)
      [] task.task_type = UNLOADING -> execute_unloading_task(task, st)
      [] OTHER -> st

\* a release that resets the status and forgets the task reference
release_status_only(eqs, task) ==
    IF task.assigned_equipment # NULL
    THEN LET e == Get(eqs, task.assigned_equipment) IN
         Put(eqs, [e EXCEPT !.status = IDLE])
    ELSE eqs

\* in execute_task, the release of the task's equipment ("释放设备")
release_equipment(eqs, task) ==
    IF task.assigned_equipment # NULL
    THEN LET e == Get(eqs, task.assigned_equipment) IN
         Put(eqs, [e EXCEPT !.status = IDLE, !.current_task_id = NULL])
    ELSE eqs

\* TMSSystem.execute_task(task_id) on the whole state:
\* [tasks, wh, eq, log: the state afterwards, ok: the value returned,
\*  effect_ok: the effect function returned without raising]
execute(task_id, db_ok) ==
    IF task_id \notin Ids(tasks)
    THEN [tasks |-> tasks, wh |-> warehouses, eq |-> equipment,
          log |-> execution_log, ok |-> FALSE, effect_ok |-> FALSE]
    ELSE LET task == start_execution(Get(tasks, task_id))
             st == task_effect(task, [wh |-> warehouses, eq |-> equipment,
                                      log |-> execution_log, err |-> NoError]) IN
         IF st.err # NoError
         THEN [tasks |-> Put(tasks, fail_task(task, st.err)), wh |-> st.wh,
               eq |-> st.eq, log |-> st.log,
               ok |-> FALSE, effect_ok |-> FALSE]
         ELSE IF ~db_ok
         THEN [tasks |-> Put(tasks, fail_task(complete_task(task), SaveError)),
               wh |-> st.wh, eq |-> release_equipment(st.eq, task), log |-> st.log,
               ok |-> FALSE, effect_ok |-> TRUE]
         ELSE [tasks |-> Put(tasks, complete_task(task)),
               wh |-> st.wh, eq |-> release_equipment(st.eq, task), log |-> st.log,
               ok |-> TRUE, effect_ok |-> TRUE]

\* TMSSystem.execute_task(task_id); db_ok: save_task does not raise
execute_task(task_id, db_ok) ==
    LET r == execute(task_id, db_ok) IN
    /\ tasks' = r.tasks
    /\ warehouses' = r.wh
    /\ equipment' = r.eq
    /\ execution_log' = r.log
    /\ ret' = Ret(r.ok)
    /\ UNCHANGED <<products, obstacles, calls>>

----------------------------------------------------------------------------
(* Scheduler.                                                              *)

\* a key that takes the deadline as it is, None included
DeadlineKeyRaw(t) == t.deadline

\* x.deadline or datetime.max
DeadlineKey(t) == IF t.deadline = NoDeadline THEN DatetimeMax ELSE t.deadline

\* the sort key (-x.priority, x.deadline or datetime.max) of a is strictly
\* below that of b
KeyLess(a, b) ==
    \/ -a.priority < -b.priority
    \/ /\ a.priority = b.priority
       /\ DeadlineKey(a) < DeadlineKey(b)

\* x put into the sorted sequence s behind every element whose key is not
\* above its own
RECURSIVE InsertSorted(_, _)
InsertSorted(s, x) ==
    IF s = <<>> THEN <<x>>
    ELSE IF KeyLess(x, Head(s)) THEN <<x>> \o s
    ELSE <<Head(s)>> \o InsertSorted(Tail(s), x)

\* sorted(s, key=...): Python's sort is stable
RECURSIVE sorted_tasks(_)
sorted_tasks(s) ==
    IF s = <<>> THEN <<>>
    ELSE InsertSorted(sorted_tasks(SubSeq(s, 1, Len(s) - 1)), s[Len(s)])

\* TMSSystem._calculate_task_equipment_distance, the warehouse being registered
calculate_task_equipment_distance(task, e) ==
    IF "source_warehouse_id" \in DOMAIN task.metadata
    THEN distance_to(e.position,
                     Get(warehouses, task.metadata.source_warehouse_id).position)
    ELSE 0

\* min(suitable, key=distance): the first element of the least distance
best_equipment(task, suitable) ==
    LET d(i) == calculate_task_equipment_distance(task, suitable[i])
        least == {i \in 1..Len(suitable) : \A j \in 1..Len(suitable) : d(i) <= d(j)} IN
    suitable[SetMin(least)]

\* the loop of optimize_task_schedule over the sorted tasks, on
\* [tasks, eq, schedule: optimized_schedule, raised: a KeyError ended the pass]
RECURSIVE schedule_loop(_, _)
schedule_loop(todo, st) ==
    IF todo = <<>> \/ st.raised THEN st
    ELSE LET task == Get(st.tasks, Head(todo))
             suitable == SelectSeq(st.eq,
                 LAMBDA e : can_perform_task(e, task.task_type) /\ e.status = IDLE) IN
         IF suitable = <<>> THEN schedule_loop(Tail(todo), st)
         ELSE IF /\ "source_warehouse_id" \in DOMAIN task.metadata
                 /\ task.metadata.source_warehouse_id \notin Ids(warehouses)
         THEN [st EXCEPT !.raised = TRUE]
         ELSE LET r == assign_equipment(st.tasks, st.eq, task.id,
                                        best_equipment(task, suitable).id) IN
              schedule_loop(Tail(todo),
                  IF r.ok
                  THEN [st EXCEPT !.tasks = r.tasks, !.eq = r.eq,
                                  !.schedule = Append(st.schedule, task.id)]
                  ELSE st)

\* the ids of the Pending tasks in the order the pass takes them
pending_sorted(ts) ==
    LET s == sorted_tasks(SelectSeq(ts, LAMBDA t : t.status = PENDING)) IN
    [i \in 1..Len(s) |-> s[i].id]

\* TMSSystem.optimize_task_schedule()
optimize_task_schedule ==
    LET r == schedule_loop(pending_sorted(tasks),
                           [tasks |-> tasks, eq |-> equipment, schedule |-> <<>>,
                            raised |-> FALSE]) IN
    /\ tasks' = r.tasks
    /\ equipment' = r.eq
    /\ ret' = [Ret(~r.raised) EXCEPT
                 !.raised = r.raised,
                 !.schedule = IF r.raised THEN <<>> ELSE r.schedule]
    /\ UNCHANGED <<products, warehouses, obstacles, execution_log, calls>>

----------------------------------------------------------------------------
(* The commands a caller may issue, over small pools of inputs.  Each      *)
(* specification starts from the freshly constructed system and explores   *)
(* the commands that bear on one part of the state.                        *)

ProductIds == {"P1"}
Units == {1, 2}
\* the quantities a caller may pass: the spec's data model has them
\* non-negative, the code accepts any integer
Quantities == -1..MaxQty
\* <<id, type, position, capacity>>
WarehouseInputs == {<<"W1", PRODUCT, <<0, 0>>, 2>>, <<"W2", TERMINAL, <<2, 0>>, 2>>}
WarehouseIds == {"W1", "W2"}
\* <<source, target>> of the internal transfers
Routes == {<<"W1", "W2">>, <<"W2", "W1">>}
\* <<id, kind, position, capacity>>
CraneInput == <<"E1", Crane, <<0, 1>>, 2>>
TruckInput == <<"E2", FrameTruck, <<1, 1>>, 2>>
FrameInput == <<"E3", Frame, <<1, 2>>, 2>>
Crane2Input == <<"E4", Crane, <<2, 1>>, 2>>
Cells == {<<1, 1>>}
Priorities == {1, 2}
Deadlines == {1, 2}

\* the stocks, the volumes and the audit log are within the explored range
Explored ==
    /\ Len(execution_log) <= MaxLog
    /\ \A i \in 1..Len(warehouses) :
          /\ \A p \in DOMAIN warehouses[i].products :
                Abs(warehouses[i].products[p]) <= MaxStock
          /\ Abs(warehouses[i].current_volume) <= 2 * MaxStock
    /\ \A i \in 1..Len(equipment) :
          /\ \A p \in DOMAIN equipment[i].products :
                Abs(equipment[i].products[p]) <= MaxStock
          /\ Abs(equipment[i].current_load) <= equipment[i].capacity + MaxStock

(* Inventory: the catalogue, the warehouses and the tasks that move stock. *)
NextStock ==
    \/ \E id \in ProductIds, v \in Units, db_ok \in BOOLEAN :
          add_product(id, 1, v, db_ok)
    \/ \E id \in ProductIds, v \in Units, db_ok \in BOOLEAN :
          update_product(id, 1, v, db_ok)
    \/ \E w \in WarehouseInputs, db_ok \in BOOLEAN :
          add_warehouse(w[1], w[2], w[3], w[4], db_ok)
    \/ \E wid \in WarehouseIds, p \in ProductIds, q \in Quantities :
          warehouse_add_product(wid, p, q) /\ Explored'
    \/ \E wid \in WarehouseIds, p \in ProductIds, q \in Quantities :
          warehouse_remove_product(wid, p, q) /\ Explored'
    \/ \E p \in ProductIds, q \in Quantities, db_ok \in BOOLEAN :
          /\ Len(tasks) < MaxStockTasks
          /\ create_ship_transport_task("SP1", <<<<p, q>>>>, 1, 1, db_ok)
    \/ \E r \in Routes, p \in ProductIds, q \in Quantities, db_ok \in BOOLEAN :
          /\ Len(tasks) < MaxStockTasks
          /\ create_internal_transfer_task(r[1], r[2], <<<<p, q>>>>, db_ok)
    \/ \E i \in 1..MaxStockTasks, db_ok \in BOOLEAN :
          execute_task(TaskIdPool[i], db_ok) /\ Explored'

SpecStock == Init /\ [][NextStock]_vars

(* Life cycle: equipment, tasks, assignment, scheduling and execution.     *)
Next ==
    \/ \E e \in {TruckInput, CraneInput} : add_equipment(e[1], e[2], e[3], e[4])
    \/ \E eid \in {TruckInput[1], CraneInput[1]}, c \in Cells : move_to(eid, c)
    \/ /\ Len(tasks) < MaxTasks
       /\ create_ship_transport_task("SP1", <<<<"P1", 1>>>>, 1, 1, TRUE)
    \/ /\ Len(tasks) < MaxTasks
       /\ create_internal_transfer_task("W1", "W2", <<<<"P1", 1>>>>, TRUE)
    \/ \E i \in 1..MaxTasks, eid \in {TruckInput[1], CraneInput[1]} :
          assign_equipment_to_task(TaskIdPool[i], eid)
    \/ \E i \in 1..MaxTasks, db_ok \in BOOLEAN : execute_task(TaskIdPool[i], db_ok)
    \/ optimize_task_schedule

Spec == Init /\ [][Next]_vars

(* Loads: what cranes and frames carry, and the tasks that load them.      *)
NextLoad ==
    \/ \E id \in ProductIds, w \in Units : add_product(id, w, 1, TRUE)
    \/ \E id \in ProductIds, w \in Units : update_product(id, w, 1, TRUE)
    \/ \E e \in {CraneInput, FrameInput} : add_equipment(e[1], e[2], e[3], e[4])
    \/ \E eid \in {CraneInput[1], FrameInput[1]}, p \in ProductIds,
          q \in Quantities : load_product(eid, p, q) /\ Explored'
    \/ \E eid \in {CraneInput[1], FrameInput[1]}, p \in ProductIds,
          q \in Quantities : unload_product(eid, p, q) /\ Explored'
    \/ \E type \in {LOADING, UNLOADING}, p \in ProductIds, q \in Quantities :
          /\ Len(tasks) < MaxLoadTasks
          /\ store_task(type, 1, NoDeadline, p, q)
    \/ \E i \in 1..MaxLoadTasks :
          assign_equipment_to_task(TaskIdPool[i], CraneInput[1])
    \/ \E i \in 1..MaxLoadTasks, db_ok \in BOOLEAN :
          execute_task(TaskIdPool[i], db_ok) /\ Explored'

SpecLoad == Init /\ [][NextLoad]_vars

(* Scheduling: tasks of every priority and deadline, and cranes to take    *)
(* them.                                                                   *)
NextSched ==
    \/ \E e \in {CraneInput, Crane2Input} : add_equipment(e[1], e[2], e[3], e[4])
    \/ \E pr \in Priorities, d \in Deadlines \cup {NoDeadline} :
          /\ Len(tasks) < MaxTasks
          /\ store_task(MOVE_EQUIPMENT, pr, d, "P1", 1)
    \/ \E i \in 1..MaxTasks : execute_task(TaskIdPool[i], TRUE)
    \/ optimize_task_schedule

SpecSched == Init /\ [][NextSched]_vars

(* Routes: the path planner, its obstacles and the queries put to it.      *)
GridCells == (0..(GridWidth - 1)) \X (0..(GridHeight - 1))

NextPath ==
    \/ \E c \in GridCells :
          /\ Cardinality(obstacles) < MaxObstacles
          /\ add_obstacle(c)
    \/ \E c \in GridCells : remove_obstacle(c)
    \/ \E start \in GridCells, goal \in GridCells : a_star_path(start, goal)

SpecPath == Init /\ [][NextPath]_vars

(* One warehouse and the calls on it.                                      *)
NextWarehouse ==
    \/ \E id \in ProductIds, v \in Units : add_product(id, 1, v, TRUE)
    \/ \E w \in WarehouseInputs : add_warehouse(w[1], w[2], w[3], w[4], TRUE)
    \/ \E wid \in WarehouseIds, p \in ProductIds, q \in Quantities :
          warehouse_add_product(wid, p, q) /\ Explored'
    \/ \E wid \in WarehouseIds, p \in ProductIds, q \in Quantities :
          warehouse_remove_product(wid, p, q) /\ Explored'

SpecWarehouse == Init /\ [][NextWarehouse]_vars

(* A crane, a frame and the calls on them.                                 *)
NextCrane ==
    \/ \E id \in ProductIds, w \in Units : add_product(id, w, 1, TRUE)
    \/ \E e \in {CraneInput, FrameInput} : add_equipment(e[1], e[2], e[3], e[4])
    \/ \E eid \in {CraneInput[1], FrameInput[1]}, p \in ProductIds,
          q \in Quantities : load_product(eid, p, q) /\ Explored'
    \/ \E eid \in {CraneInput[1], FrameInput[1]}, p \in ProductIds,
          q \in Quantities : unload_product(eid, p, q) /\ Explored'

SpecCrane == Init /\ [][NextCrane]_vars

(* Two request threads assigning equipment, each registered once, to tasks *)
(* that are never executed: run one call after the other, an equipment is  *)
(* Busy from its first assignment on and is never assigned again.          *)
NextRace ==
    \/ \E e \in {TruckInput, CraneInput} :
          e[1] \notin Ids(equipment) /\ add_equipment(e[1], e[2], e[3], e[4])
    \/ /\ Len(tasks) < MaxTasks
       /\ create_ship_transport_task("SP1", <<<<"P1", 1>>>>, 1, 1, TRUE)
    \/ /\ Len(tasks) < MaxTasks
       /\ create_internal_transfer_task("W1", "W2", <<<<"P1", 1>>>>, TRUE)
    \/ \E c \in Callers, i \in 1..MaxTasks, eid \in {TruckInput[1], CraneInput[1]} :
          assign_check(c, TaskIdPool[i], eid)
    \/ \E c \in Callers : assign_write(c)

SpecRace == Init /\ [][NextRace]_vars

(* Equipment on the grid: registration, moves and path queries.  The       *)
(* obstacles are those add_equipment adds: remove_obstacle has no caller   *)
(* in TMSSystem or in the REST handlers.                                    *)
EquipmentInputs == {CraneInput, TruckInput}

NextRoute ==
    \/ \E e \in EquipmentInputs : add_equipment(e[1], e[2], e[3], e[4])
    \/ \E e \in EquipmentInputs, c \in Cells : move_to(e[1], c)
    \/ \E start \in GridCells, goal \in GridCells : a_star_path(start, goal)

SpecRoute == Init /\ [][NextRoute]_vars

(* Shipping out of two product warehouses, registered in either order.     *)
\* <<id, type, position, capacity>>
ProductWarehouseInputs == {<<"W1", PRODUCT, <<0, 0>>, 2>>, <<"W3", PRODUCT, <<0, 2>>, 2>>}

NextShip ==
    \/ \E id \in ProductIds : add_product(id, 1, 1, TRUE)
    \/ \E w \in ProductWarehouseInputs : add_warehouse(w[1], w[2], w[3], w[4], TRUE)
    \/ \E w \in ProductWarehouseInputs, p \in ProductIds :
          warehouse_add_product(w[1], p, 1) /\ Explored'
    \/ \E p \in ProductIds :
          /\ Len(tasks) < MaxTasks
          /\ create_ship_transport_task("SP1", <<<<p, 1>>>>, 1, 1, TRUE)
    \/ \E i \in 1..MaxTasks : execute_task(TaskIdPool[i], TRUE) /\ Explored'

SpecShip == Init /\ [][NextShip]_vars

(* Capabilities: equipment of the three kinds and tasks for cranes and for *)
(* trucks, assigned by hand and by the scheduler.                          *)
AllEquipmentInputs == {CraneInput, TruckInput, FrameInput}

NextCapability ==
    \/ \E e \in AllEquipmentInputs : add_equipment(e[1], e[2], e[3], e[4])
    \/ /\ Len(tasks) < MaxTasks
       /\ store_task(LOADING, 1, NoDeadline, "P1", 1)
    \/ /\ Len(tasks) < MaxTasks
       /\ create_ship_transport_task("SP1", <<<<"P1", 1>>>>, 1, 1, TRUE)
    \/ \E i \in 1..MaxTasks, e \in AllEquipmentInputs :
          assign_equipment_to_task(TaskIdPool[i], e[1])
    \/ \E i \in 1..MaxTasks : execute_task(TaskIdPool[i], TRUE)
    \/ optimize_task_schedule

SpecCapability == Init /\ [][NextCapability]_vars

(* Path queries whose start or goal need not be a cell of the grid:        *)
(* a_star_path takes any Position and checks neither against the bounds.   *)
QueryCells == GridCells \cup {<<-1, 0>>}

NextQuery ==
    \/ \E c \in GridCells :
          /\ Cardinality(obstacles) < MaxObstacles
          /\ add_obstacle(c)
    \/ \E start \in QueryCells, goal \in QueryCells : a_star_path(start, goal)

SpecQuery == Init /\ [][NextQuery]_vars

(* Ship plans of two product lines, over two product warehouses and a      *)
(* terminal warehouse registered one after the other, with a crane         *)
(* standing by.  The tasks are run until the first one that ships stock.   *)
LineProducts == {"P1", "P2"}

\* <<id, type, position, capacity>>, in the order of registration
YardInputs ==
    << <<"W1", PRODUCT, <<0, 0>>, 2>>, <<"W3", PRODUCT, <<0, 2>>, 2>>,
       <<"W2", TERMINAL, <<2, 0>>, 2>> >>

NextLines ==
    \/ \E id \in LineProducts : id \notin DOMAIN products /\ add_product(id, 1, 1, TRUE)
    \/ \E k \in 1..Len(YardInputs) :
          /\ k = Len(warehouses) + 1
          /\ add_warehouse(YardInputs[k][1], YardInputs[k][2], YardInputs[k][3],
                           YardInputs[k][4], TRUE)
    \/ equipment = <<>> /\ add_equipment(CraneInput[1], CraneInput[2], CraneInput[3],
                                         CraneInput[4])
    \/ \E k \in 1..Len(YardInputs), p \in LineProducts :
          /\ YardInputs[k][2] = TERMINAL => p = "P1"
          /\ warehouse_add_product(YardInputs[k][1], p, 1)
    \/ /\ Len(tasks) < MaxStockTasks
       /\ create_ship_transport_task("SP1", << <<"P1", 2>>, <<"P2", 1>> >>, 1, 1, TRUE)
    \/ \E i \in 1..MaxStockTasks :
          execution_log = <<>> /\ execute_task(TaskIdPool[i], TRUE)

SpecLines == Init /\ [][NextLines]_vars

----------------------------------------------------------------------------
(* Properties.                                                             *)

\* the sum over the product map m of quantity times the registered volume
RECURSIVE StockVolume(_, _)
StockVolume(m, ps) ==
    IF ps = {} THEN 0
    ELSE LET p == CHOOSE x \in ps : TRUE IN
         m[p] * products[p].volume + StockVolume(m, ps \ {p})

\* C1: after any sequence of commands every warehouse's current_volume is
\* the sum over its product map of quantity times the volume currently
\* registered for the product.
C1_current_volume_is_sum ==
    \A i \in 1..Len(warehouses) :
       warehouses[i].current_volume =
          StockVolume(warehouses[i].products, DOMAIN warehouses[i].products)

\* C2: in every reachable state every warehouse has
\* 0 <= current_volume <= capacity, whatever integer quantities are passed.
C2_current_volume_in_range ==
    \A i \in 1..Len(warehouses) :
       /\ 0 <= warehouses[i].current_volume
       /\ warehouses[i].current_volume <= warehouses[i].capacity

\* C3: between commands, every registered equipment is Busy if and only if
\* its current_task_id is set.
C3_busy_iff_current_task ==
    \A i \in 1..Len(equipment) :
       (equipment[i].status = BUSY) <=> (equipment[i].current_task_id # NULL)

\* C3 at work: a successful execution has released the equipment of its
\* task, which is now Busy on a second task whose execution failed.
C3_witness ==
    \E i \in 1..Len(equipment), j \in 1..Len(tasks) :
       /\ equipment[i].status = BUSY
       /\ equipment[i].current_task_id \in Ids(tasks)
       /\ Get(tasks, equipment[i].current_task_id).status = FAILED
       /\ tasks[j].status = COMPLETED
       /\ tasks[j].assigned_equipment = equipment[i].id

\* C4: in every reachable state every Crane and every Frame has
\* current_load <= capacity.
C4_load_within_capacity ==
    \A i \in 1..Len(equipment) :
       equipment[i].kind \in {Crane, Frame}
          => equipment[i].current_load <= equipment[i].capacity

\* C5: once a task is Completed, Failed or Cancelled no command changes its
\* status again.
C5_terminal_status_is_final ==
    [][\A i \in 1..Len(tasks) :
          tasks[i].status \in {COMPLETED, FAILED, CANCELLED}
             => tasks'[i].status = tasks[i].status]_vars

\* the equipment the task names is Idle with no current task in eqs
Released(eqs, task) ==
    (task.assigned_equipment \in Ids(eqs))
       => /\ Get(eqs, task.assigned_equipment).status = IDLE
          /\ Get(eqs, task.assigned_equipment).current_task_id = NULL

\* C6: when execute_task ends with the task Failed because the effect raised,
\* the task's assigned equipment is Idle with current_task_id cleared.
C6_failure_releases_equipment ==
    [][\A i \in 1..Len(tasks), db_ok \in BOOLEAN :
          (/\ execute_task(tasks[i].id, db_ok)
           /\ ~execute(tasks[i].id, db_ok).effect_ok)
             => /\ tasks'[i].status = FAILED
                /\ Released(equipment', tasks'[i])]_vars

\* C7: when the effect of execute_task succeeds the task becomes Completed
\* with an end timestamp and its assigned equipment becomes Idle with
\* current_task_id cleared.
C7_success_completes_and_releases ==
    [][\A i \in 1..Len(tasks), db_ok \in BOOLEAN :
          (/\ execute_task(tasks[i].id, db_ok)
           /\ execute(tasks[i].id, db_ok).effect_ok)
             => /\ tasks'[i].status = COMPLETED
                /\ tasks'[i].end_time # NULL
                /\ Released(equipment', tasks'[i])]_vars

\* no equipment id is the assigned_equipment of two non-terminal tasks of ts
NoDoubleAssignment(ts) ==
    \A i, j \in 1..Len(ts) :
       (/\ i # j
        /\ ts[i].status \in {PENDING, IN_PROGRESS}
        /\ ts[j].status \in {PENDING, IN_PROGRESS}
        /\ ts[i].assigned_equipment # NULL)
          => ts[i].assigned_equipment # ts[j].assigned_equipment

\* C8: after optimize_task_schedule returns, no equipment id is the
\* assigned_equipment of two different non-terminal tasks.
C8_no_double_assignment ==
    [][(optimize_task_schedule /\ ~ret'.raised) => NoDoubleAssignment(tasks')]_vars



\* task a comes before task b in the scheduling order: higher priority
\* first, then the earlier deadline with no deadline last, then creation order
ScheduledBefore(a, b) ==
    \/ a.priority > b.priority
    \/ /\ a.priority = b.priority
       /\ a.deadline # NoDeadline
       /\ (b.deadline = NoDeadline \/ a.deadline < b.deadline)
    \/ /\ a.priority = b.priority
       /\ a.deadline = b.deadline
       /\ IndexOf(tasks, a.id) < IndexOf(tasks, b.id)

\* C10: the sequence optimize_task_schedule returns holds Pending tasks in
\* the order higher priority first, then earlier deadline with no deadline
\* last, then creation order; a Pending task the pass left out comes after
\* every task it took when all equipment can serve all tasks.
C10_schedule_order ==
    LET sched == ret.schedule IN
    /\ \A j \in 1..Len(sched) :
          /\ sched[j] \in Ids(tasks)
          /\ Get(tasks, sched[j]).status = PENDING
    /\ \A j, k \in 1..Len(sched) :
          j < k => ScheduledBefore(Get(tasks, sched[j]), Get(tasks, sched[k]))
    /\ \A j \in 1..Len(sched), i \in 1..Len(tasks) :
          (/\ tasks[i].status = PENDING
           /\ \A k \in 1..Len(sched) : sched[k] # tasks[i].id)
             => ScheduledBefore(Get(tasks, sched[j]), tasks[i])

\* C10 at work: the pass returned two tasks of equal priority, the one
\* without a deadline created first and scheduled last.
C10_witness ==
    \E j, k \in 1..Len(ret.schedule) :
       /\ j < k
       /\ Get(tasks, ret.schedule[j]).priority = Get(tasks, ret.schedule[k]).priority
       /\ Get(tasks, ret.schedule[j]).deadline # NoDeadline
       /\ Get(tasks, ret.schedule[k]).deadline = NoDeadline
       /\ IndexOf(tasks, ret.schedule[k]) < IndexOf(tasks, ret.schedule[j])


\* the equipment ids in ascending order
EquipmentIdOrder == <<"E1", "E2", "E3", "E4">>

\* the place of an equipment id in the ascending order of ids
IdRank(id) == CHOOSE n \in 1..Len(EquipmentIdOrder) : EquipmentIdOrder[n] = id

\* the Manhattan distance from equipment e to the warehouse the task names,
\* 0 when it names none
TaskDistance(task, e) ==
    IF /\ "source_warehouse_id" \in DOMAIN task.metadata
       /\ task.metadata.source_warehouse_id \in Ids(warehouses)
    THEN Abs(e.position[1] - Get(warehouses, task.metadata.source_warehouse_id).position[1])
         + Abs(e.position[2] - Get(warehouses, task.metadata.source_warehouse_id).position[2])
    ELSE 0

\* the equipment idle and capable of the task when the pass reaches the j-th
\* task it returns: idle before the pass and not taken by an earlier one
CandidatesAt(sched, j, ts) ==
    {i \in 1..Len(equipment) :
        /\ equipment[i].status = IDLE
        /\ can_perform_task(equipment[i], Get(ts, sched[j]).task_type)
        /\ \A k \in 1..(j - 1) :
              Get(ts, sched[k]).assigned_equipment # equipment[i].id}

\* C11: for each task it assigns, optimize_task_schedule picks among the
\* idle capable equipment one of least distance to the task's warehouse and,
\* among those at equal distance, the one with the smallest id.
C11_nearest_then_smallest_id ==
    [][(optimize_task_schedule /\ ~ret'.raised) =>
         \A j \in 1..Len(ret'.schedule) :
            LET task == Get(tasks', ret'.schedule[j])
                chosen == Get(equipment, task.assigned_equipment) IN
            \A i \in CandidatesAt(ret'.schedule, j, tasks') :
               \/ TaskDistance(task, chosen) < TaskDistance(task, equipment[i])
               \/ /\ TaskDistance(task, chosen) = TaskDistance(task, equipment[i])
                  /\ IdRank(chosen.id) <= IdRank(equipment[i].id)]_vars

\* C12: the sequence optimize_task_schedule returns holds exactly the tasks
\* assigned in the pass: each returned task names an equipment that is Busy
\* on it, and a Pending task that is not returned is left as it was, no
\* idle equipment being capable of it.
C12_schedule_is_the_assigned ==
    [][(optimize_task_schedule /\ ~ret'.raised) =>
         /\ \A j \in 1..Len(ret'.schedule) :
               LET task == Get(tasks', ret'.schedule[j]) IN
               /\ task.assigned_equipment \in Ids(equipment')
               /\ Get(equipment', task.assigned_equipment).status = BUSY
               /\ Get(equipment', task.assigned_equipment).current_task_id = task.id
         /\ \A i \in 1..Len(tasks) :
               (\A j \in 1..Len(ret'.schedule) : ret'.schedule[j] # tasks[i].id)
                  => /\ tasks'[i] = tasks[i]
                     /\ tasks[i].status = PENDING =>
                           \A e \in 1..Len(equipment') :
                              ~(/\ equipment'[e].status = IDLE
                                /\ can_perform_task(equipment'[e], tasks[i].task_type))]_vars

\* C12 at work: the pass returned a task and left another Pending task out.
C12_witness ==
    /\ Len(ret.schedule) >= 1
    /\ \E i \in 1..Len(tasks) :
          /\ tasks[i].status = PENDING
          /\ \A j \in 1..Len(ret.schedule) : ret.schedule[j] # tasks[i].id


\* C13: with no obstacle, a_star_path from (0,0) to an in-bounds cell (x,y)
\* returns a path of x+y steps, that is x+y+1 positions.
C13_manhattan_length ==
    [][\A goal \in GridCells :
          (obstacles = {} /\ a_star_path(<<0, 0>>, goal))
             => /\ ~ret'.raised
                /\ Len(ret'.path) = goal[1] + goal[2] + 1]_vars

\* the free cells one step away from a cell of S, and S itself
Step(S) ==
    S \cup {c \in GridCells \ obstacles :
               \E d \in S : Abs(c[1] - d[1]) + Abs(c[2] - d[2]) = 1}

\* the free cells that a 4-connected obstacle-free route joins to S
RECURSIVE Reachable(_)
Reachable(S) == IF Step(S) = S THEN S ELSE Reachable(Step(S))

\* C14: when start or goal is an obstacle, or no 4-connected obstacle-free
\* route joins them, a_star_path returns the empty sequence and raises
\* nothing.
C14_no_route_is_empty ==
    [][\A start \in GridCells, goal \in GridCells :
          (/\ a_star_path(start, goal)
           /\ \/ start \in obstacles
              \/ goal \in obstacles
              \/ goal \notin Reachable({start}))
             => /\ ~ret'.raised
                /\ ret'.path = <<>>]_vars

\* C15: equal f-scores in the open set are never settled by comparing two
\* positions, so a_star_path reaches a result for every in-bounds start and
\* goal.
C15_ties_never_fault ==
    [][\A start \in GridCells, goal \in GridCells :
          a_star_path(start, goal) => ~ret'.raised]_vars


\* C16: add_product, add_warehouse and add_equipment called with an id that
\* is already registered return failure and leave the registry and the
\* obstacle set unchanged.
C16_duplicate_id_rejected ==
    [][/\ \A id \in ProductIds, w \in Units, v \in Units, db_ok \in BOOLEAN :
             (id \in DOMAIN products /\ add_product(id, w, v, db_ok))
                => (~ret'.ok /\ products' = products)
       /\ \A w \in WarehouseInputs, db_ok \in BOOLEAN :
             (w[1] \in Ids(warehouses) /\ add_warehouse(w[1], w[2], w[3], w[4], db_ok))
                => (~ret'.ok /\ warehouses' = warehouses)
       /\ \A e \in {CraneInput, TruckInput, FrameInput, Crane2Input} :
             (e[1] \in Ids(equipment) /\ add_equipment(e[1], e[2], e[3], e[4]))
                => (~ret'.ok /\ equipment' = equipment /\ obstacles' = obstacles)]_vars

\* C17: a Warehouse.add_product that would exceed the capacity, and a
\* Warehouse.remove_product of a product absent or held in a smaller
\* quantity, return false and leave the warehouse as it was; an add that
\* reaches the capacity exactly is accepted.
C17_rejected_stock_call_changes_nothing ==
    [][\A wid \in WarehouseIds, p \in ProductIds, q \in Quantities :
          /\ (warehouse_add_product(wid, p, q)
              /\ Get(warehouses, wid).current_volume + q * products[p].volume
                    > Get(warehouses, wid).capacity)
                => (~ret'.ok /\ warehouses' = warehouses)
          /\ (warehouse_add_product(wid, p, q)
              /\ Get(warehouses, wid).current_volume + q * products[p].volume
                    = Get(warehouses, wid).capacity)
                => /\ ret'.ok
                   /\ Get(warehouses', wid).current_volume = Get(warehouses, wid).capacity
                   /\ GetOr0(Get(warehouses', wid).products, p)
                         = GetOr0(Get(warehouses, wid).products, p) + q
          /\ (warehouse_remove_product(wid, p, q)
              /\ \/ p \notin DOMAIN Get(warehouses, wid).products
                 \/ Get(warehouses, wid).products[p] < q)
                => (~ret'.ok /\ warehouses' = warehouses)]_vars

\* C17 at work: a warehouse is filled exactly to its capacity and the call
\* that followed was turned away.
C17_witness ==
    /\ ~ret.ok
    /\ \E i \in 1..Len(warehouses) :
          /\ warehouses[i].current_volume = warehouses[i].capacity
          /\ \E p \in DOMAIN warehouses[i].products : warehouses[i].products[p] > 0

\* C18: Crane.load_product is accepted exactly when
\* current_load + weight x quantity <= capacity, and a rejected load or
\* unload leaves current_load unchanged.
C18_crane_load_iff_fits ==
    [][\A p \in ProductIds, q \in Quantities :
          LET eid == CraneInput[1] IN
          /\ load_product(eid, p, q)
                => LET e == Get(equipment, eid)
                       fits == e.current_load + products[p].weight * q <= e.capacity IN
                   /\ ret'.ok <=> fits
                   /\ Get(equipment', eid).current_load =
                         IF fits THEN e.current_load + products[p].weight * q
                         ELSE e.current_load
          /\ (unload_product(eid, p, q) /\ ~ret'.ok)
                => Get(equipment', eid).current_load = Get(equipment, eid).current_load]_vars

\* C18 at work: a load has landed exactly on the capacity of the crane.
C18_witness ==
    /\ ret.ok
    /\ CraneInput[1] \in Ids(equipment)
    /\ Get(equipment, CraneInput[1]).current_load = Get(equipment, CraneInput[1]).capacity

\* no Product-type warehouse holds at least quantity of the product
NoStock(product_id, quantity) ==
    \A i \in 1..Len(warehouses) :
       warehouses[i].warehouse_type = PRODUCT
          => GetOr0(warehouses[i].products, product_id) < quantity

\* the task ended Failed with a reason of the given kind in its metadata
FailedWith(task, kind) ==
    /\ task.status = FAILED
    /\ "failure_reason" \in DOMAIN task.metadata
    /\ task.metadata.failure_reason.exc = kind

\* C19: executing a ShipTransport task whose product line finds no
\* Product-type warehouse holding the quantity ends with the task Failed,
\* an InsufficientStock reason recorded, and execute_task reporting failure.
C19_ship_without_stock_fails ==
    [][\A i \in 1..Len(tasks) :
          (/\ execute_task(tasks[i].id, TRUE)
           /\ tasks[i].task_type = SHIP_TRANSPORT
           /\ \E l \in 1..Len(tasks[i].metadata.products) :
                 NoStock(tasks[i].metadata.products[l][1],
                         tasks[i].metadata.products[l][2]))
             => /\ ~ret'.ok
                /\ FailedWith(tasks'[i], "InsufficientStock")]_vars

\* C20: executing an InternalTransfer task that requests more of a product
\* than the source holds leaves the target's quantity of it unchanged and
\* ends with the task Failed, an InsufficientStock reason in its metadata.
C20_transfer_without_stock_fails ==
    [][\A i \in 1..Len(tasks) :
          (/\ execute_task(tasks[i].id, TRUE)
           /\ tasks[i].task_type = INTERNAL_TRANSFER
           /\ tasks[i].metadata.source_warehouse_id \in Ids(warehouses)
           /\ tasks[i].metadata.target_warehouse_id \in Ids(warehouses)
           /\ Len(tasks[i].metadata.products) = 1
           /\ GetOr0(Get(warehouses, tasks[i].metadata.source_warehouse_id).products,
                     tasks[i].metadata.products[1][1])
                 < tasks[i].metadata.products[1][2])
             => /\ GetOr0(Get(warehouses', tasks[i].metadata.target_warehouse_id).products,
                          tasks[i].metadata.products[1][1])
                      = GetOr0(Get(warehouses, tasks[i].metadata.target_warehouse_id).products,
                               tasks[i].metadata.products[1][1])
                /\ FailedWith(tasks'[i], "InsufficientStock")]_vars


\* the quantity of the product the warehouse of the given id holds in whs
Held(whs, wid, product_id) == GetOr0(Get(whs, wid).products, product_id)

\* C21: executing an InternalTransfer between two different warehouses
\* leaves, for every product, the quantity held by source plus the quantity
\* held by target as it was: a line the target cannot take is skipped.
C21_transfer_conserves_stock ==
    [][\A i \in 1..Len(tasks), db_ok \in BOOLEAN :
          (/\ execute_task(tasks[i].id, db_ok)
           /\ tasks[i].task_type = INTERNAL_TRANSFER
           /\ tasks[i].metadata.source_warehouse_id \in Ids(warehouses)
           /\ tasks[i].metadata.target_warehouse_id \in Ids(warehouses)
           /\ tasks[i].metadata.source_warehouse_id
                 # tasks[i].metadata.target_warehouse_id)
             => \A p \in ProductIds :
                   Held(warehouses', tasks[i].metadata.source_warehouse_id, p)
                      + Held(warehouses', tasks[i].metadata.target_warehouse_id, p)
                   = Held(warehouses, tasks[i].metadata.source_warehouse_id, p)
                      + Held(warehouses, tasks[i].metadata.target_warehouse_id, p)]_vars


\* the Idle cranes of the state, as indices into equipment
IdleCranes == {i \in 1..Len(equipment) :
                 equipment[i].kind = Crane /\ equipment[i].status = IDLE}

\* C22: executing a Loading task ends with the task Failed and execute_task
\* reporting failure when no Idle Crane exists or the load would exceed the
\* capacity of the selected crane; otherwise the load goes to the Idle Crane
\* with the smallest id.
C22_loading_fails_or_smallest_crane ==
    [][\A i \in 1..Len(tasks) :
          (/\ execute_task(tasks[i].id, TRUE)
           /\ tasks[i].task_type = LOADING
           /\ tasks[i].metadata.product_id \in DOMAIN products)
             => LET w == products[tasks[i].metadata.product_id].weight
                         * tasks[i].metadata.quantity
                    first == CHOOSE c \in IdleCranes :
                                \A d \in IdleCranes :
                                   IdRank(equipment[c].id) <= IdRank(equipment[d].id) IN
                IF IdleCranes = {} \/ equipment[first].current_load + w > equipment[first].capacity
                THEN ~ret'.ok /\ tasks'[i].status = FAILED
                ELSE /\ ret'.ok
                     /\ equipment'[first].current_load = equipment[first].current_load + w]_vars


\* C23: execute_task never propagates a fault: for every task in the store,
\* whatever its metadata names and whether or not the save works, it returns
\* true exactly when the task ends Completed and false exactly when the task
\* ends Failed with a failure reason recorded in its metadata.
C23_execute_task_returns_outcome ==
    [][\A i \in 1..Len(tasks), db_ok \in BOOLEAN :
          execute_task(tasks[i].id, db_ok)
             => /\ ~ret'.raised
                /\ ret'.ok <=> tasks'[i].status = COMPLETED
                /\ ~ret'.ok <=> /\ tasks'[i].status = FAILED
                                /\ "failure_reason" \in DOMAIN tasks'[i].metadata]_vars

\* execute_task has just returned false for a task whose effect raised KeyError
\* and for one whose save raised
C23_witness ==
    /\ ~ret.ok
    /\ \E i \in 1..Len(tasks) : FailedWith(tasks[i], "KeyError")
    /\ \E i \in 1..Len(tasks) : FailedWith(tasks[i], "sqlite3.Error")


\* C24: a save that raises does not change the outcome of the operation that
\* called it: add_product, add_warehouse, the two task creations and
\* execute_task return what they return when the save works and leave the same
\* tasks behind, so a task whose effect succeeded stays Completed.
C24_save_failure_keeps_outcome ==
    [][/\ \A id \in ProductIds, v \in Units :
             add_product(id, 1, v, FALSE) => ret' = Ret(TRUE)
       /\ \A w \in WarehouseInputs :
             add_warehouse(w[1], w[2], w[3], w[4], FALSE) => ret' = Ret(TRUE)
       /\ \A p \in ProductIds, q \in Quantities :
             create_ship_transport_task("SP1", <<<<p, q>>>>, 1, 1, FALSE)
                => ret' = Ret(TRUE)
       /\ \A r \in Routes, p \in ProductIds, q \in Quantities :
             create_internal_transfer_task(r[1], r[2], <<<<p, q>>>>, FALSE)
                => ret' = Ret(TRUE)
       /\ \A i \in 1..Len(tasks) :
             execute_task(tasks[i].id, FALSE)
                => /\ ret' = Ret(execute(tasks[i].id, TRUE).ok)
                   /\ tasks' = execute(tasks[i].id, TRUE).tasks]_vars

\* C24, for execute_task alone: a task whose effect succeeded ends Completed
\* and execute_task returns true although the save raised.
C24_effect_succeeded_stays_completed ==
    [][\A i \in 1..Len(tasks) :
          (execute_task(tasks[i].id, FALSE) /\ execute(tasks[i].id, FALSE).effect_ok)
             => ret'.ok /\ tasks'[i].status = COMPLETED]_vars


\* the lines execute_task appended to the audit log in this step
Appended == SubSeq(execution_log', Len(execution_log) + 1, Len(execution_log'))

\* a logged transfer line was applied: the target holds quantity more of the
\* product than before
TransferApplied(l) ==
    l.from # l.to => Held(warehouses', l.to, l.product)
                        = Held(warehouses, l.to, l.product) + l.quantity

\* C25, second half: a line reporting a transfer is appended only when the
\* transfer was applied to the target warehouse.
C25_line_only_when_applied ==
    [][\A i \in 1..Len(tasks) :
          (execute_task(tasks[i].id, TRUE) /\ tasks[i].task_type = INTERNAL_TRANSFER)
             => \A k \in 1..Len(Appended) :
                   Appended[k].line = "transferred" => TransferApplied(Appended[k])]_vars

\* C25: every product line of an executed ShipTransport or InternalTransfer
\* task, moved or not, appends exactly one line to the audit log, and a line
\* reporting a transfer is appended only when the transfer was applied.
C25_one_log_line_per_sub_effect ==
    [][\A i \in 1..Len(tasks) :
          (/\ execute_task(tasks[i].id, TRUE)
           /\ tasks[i].task_type \in {SHIP_TRANSPORT, INTERNAL_TRANSFER}
           /\ ret'.ok)
             => /\ Len(Appended) = Len(tasks[i].metadata.products)
                /\ \A k \in 1..Len(Appended) :
                      Appended[k].line = "transferred" => TransferApplied(Appended[k])]_vars


\* C26: when two callers run assign_equipment_to_task for the same Idle
\* equipment and two different tasks, at most one of them succeeds: in no
\* state do two tasks name the same equipment as assigned_equipment.
C26_one_caller_wins ==
    \A i, j \in 1..Len(tasks) :
       (i # j /\ tasks[i].assigned_equipment # NULL)
          => tasks[i].assigned_equipment # tasks[j].assigned_equipment


\* the cells of a returned path
PathCells(path) == {path[k] : k \in 1..Len(path)}

\* C27: once add_equipment has registered an equipment, its starting
\* position is in the obstacle set of the path planner, and no path returned
\* passes through that cell, wherever the equipment has moved since.
C27_starting_cell_is_obstacle ==
    \A e \in EquipmentInputs :
       e[1] \in Ids(equipment) => /\ e[3] \in obstacles
                                  /\ e[3] \notin PathCells(ret.path)

\* a path was returned that goes around the starting cells of two registered
\* equipment, one of which has moved away from its cell
C27_witness ==
    /\ \A e \in EquipmentInputs : e[1] \in Ids(equipment)
    /\ \E e \in EquipmentInputs : Get(equipment, e[1]).position # e[3]
    /\ Len(ret.path) > 5
    /\ ret.path[1][2] = 0
    /\ ret.path[Len(ret.path)][2] = GridHeight - 1


\* the warehouse ids in ascending order
WarehouseIdOrder == <<"W1", "W2", "W3">>

WarehouseIdRank(id) == CHOOSE n \in 1..Len(WarehouseIdOrder) : WarehouseIdOrder[n] = id

\* the ids of the Product warehouses holding at least quantity of the product
Holders(product_id, quantity) ==
    {warehouses[i].id : i \in {k \in 1..Len(warehouses) :
        /\ warehouses[k].warehouse_type = PRODUCT
        /\ Held(warehouses, warehouses[k].id, product_id) >= quantity}}

\* C28: for the product line of an executed ShipTransport task, the stock is
\* removed from the Product warehouse with the smallest id among those
\* holding at least the requested quantity, whatever the order in which the
\* warehouses were registered.
C28_ship_from_smallest_id ==
    [][\A i \in 1..Len(tasks) :
          (/\ execute_task(tasks[i].id, TRUE)
           /\ tasks[i].task_type = SHIP_TRANSPORT
           /\ Len(tasks[i].metadata.products) = 1)
             => LET product_id == tasks[i].metadata.products[1][1]
                    quantity == tasks[i].metadata.products[1][2]
                    holders == Holders(product_id, quantity) IN
                \A w \in holders :
                   (\A v \in holders : WarehouseIdRank(w) <= WarehouseIdRank(v))
                      => Held(warehouses', w, product_id)
                            = Held(warehouses, w, product_id) - quantity]_vars


\* C29: in every state every entry of the product map of a warehouse has a
\* strictly positive quantity, whatever integer quantities are passed to
\* add_product and remove_product or carried by executed tasks.
C29_quantities_positive ==
    \A i \in 1..Len(warehouses) :
       \A p \in DOMAIN warehouses[i].products : warehouses[i].products[p] > 0

\* C30: optimize_task_schedule always runs to completion and returns its
\* schedule, also when a Pending InternalTransfer names a source warehouse
\* that is not registered.
C30_schedule_pass_completes ==
    [][optimize_task_schedule => ~ret'.raised]_vars


\* C31: assign_equipment_to_task returns true only if the task and the
\* equipment exist, the equipment can perform the type of the task and the
\* equipment is Idle; when it returns false no task and no equipment changes.
C31_assignment_checked_or_nothing ==
    [][\A i \in 1..MaxTasks, eid \in {TruckInput[1], CraneInput[1]} :
          assign_equipment_to_task(TaskIdPool[i], eid)
             => /\ ret'.ok => /\ TaskIdPool[i] \in Ids(tasks)
                              /\ eid \in Ids(equipment)
                              /\ can_perform_task(Get(equipment, eid),
                                                  Get(tasks, TaskIdPool[i]).task_type)
                              /\ Get(equipment, eid).status = IDLE
                /\ ~ret'.ok => tasks' = tasks /\ equipment' = equipment]_vars

\* a call was rejected while a Busy equipment could perform a task that has
\* never run and names no equipment
C31_witness ==
    /\ ~ret.ok /\ ~ret.raised
    /\ \A j \in 1..Len(tasks) : tasks[j].start_time = NULL
    /\ \E e \in 1..Len(equipment), j \in 1..Len(tasks) :
          /\ equipment[e].status = BUSY
          /\ tasks[j].assigned_equipment = NULL
          /\ can_perform_task(equipment[e], tasks[j].task_type)


\* the types of task the equipment of a kind is for
Capable(kind, task_type) ==
    \/ kind = Crane /\ task_type \in {LOADING, UNLOADING, MOVE_EQUIPMENT}
    \/ kind = FrameTruck /\ task_type \in {SHIP_TRANSPORT, INTERNAL_TRANSFER}

\* task i of the next state names an equipment it did not name before
NewlyAssigned(i) ==
    /\ tasks'[i].assigned_equipment # NULL
    /\ i <= Len(tasks) => tasks[i].assigned_equipment # tasks'[i].assigned_equipment

\* C32: every assignment made, by assign_equipment_to_task or by
\* optimize_task_schedule, gives a task to a registered equipment of a kind
\* that is for the type of the task: a Crane takes Loading, Unloading and
\* MoveEquipment, a FrameTruck takes ShipTransport and InternalTransfer, and a
\* Frame takes nothing and is never Busy.
C32_assignment_respects_capability ==
    [][/\ \A i \in 1..Len(tasks') :
             NewlyAssigned(i)
                => /\ tasks'[i].assigned_equipment \in Ids(equipment')
                   /\ Capable(Get(equipment', tasks'[i].assigned_equipment).kind,
                              tasks'[i].task_type)
       /\ \A e \in 1..Len(equipment') :
             equipment'[e].kind = Frame => equipment'[e].status = IDLE]_vars

\* a crane holds a Loading task and a truck a ShipTransport task while a
\* registered Frame is Idle, and the last call was rejected
C32_witness ==
    /\ ~ret.ok
    /\ \E e \in 1..Len(equipment) : equipment[e].kind = Frame
    /\ \E i, j \in 1..Len(tasks) :
          /\ tasks[i].task_type = LOADING /\ tasks[i].assigned_equipment = CraneInput[1]
          /\ tasks[j].task_type = SHIP_TRANSPORT
          /\ tasks[j].assigned_equipment = TruckInput[1]


\* two positions that differ by exactly 1 in exactly one coordinate
Adjacent(a, b) == Abs(a[1] - b[1]) + Abs(a[2] - b[2]) = 1

\* C33: whenever a_star_path returns a non-empty sequence, its first element
\* is start, its last element is goal, every two consecutive elements are
\* 4-adjacent, and every element is inside the grid and not an obstacle.
C33_returned_path_is_a_route ==
    [][\A start \in QueryCells, goal \in QueryCells :
          (a_star_path(start, goal) /\ ret'.path # <<>>)
             => LET path == ret'.path IN
                /\ path[1] = start
                /\ path[Len(path)] = goal
                /\ \A k \in 1..(Len(path) - 1) : Adjacent(path[k], path[k + 1])
                /\ \A k \in 1..Len(path) :
                      path[k] \in GridCells /\ path[k] \notin obstacles]_vars


\* the ids of the warehouses whose stock of the product changes in this step
Changed(product_id) ==
    {warehouses[w].id : w \in {k \in 1..Len(warehouses) :
        Held(warehouses', warehouses[k].id, product_id)
           # Held(warehouses, warehouses[k].id, product_id)}}

\* C34: executing a ShipTransport task leaves the Terminal warehouses and the
\* load of every equipment as they were, and for each product line the stock
\* of the product goes down by the requested quantity in exactly one Product
\* warehouse when some Product warehouse holds that much, and in none
\* otherwise, whatever happened to the other lines.
C34_ship_changes_product_warehouses_only ==
    [][\A i \in 1..Len(tasks) :
          (execute_task(tasks[i].id, TRUE) /\ tasks[i].task_type = SHIP_TRANSPORT)
             => /\ \A w \in 1..Len(warehouses) :
                      warehouses[w].warehouse_type # PRODUCT
                         => warehouses'[w] = warehouses[w]
                /\ \A e \in 1..Len(equipment) :
                      /\ equipment'[e].current_load = equipment[e].current_load
                      /\ equipment'[e].products = equipment[e].products
                /\ \A k \in 1..Len(tasks[i].metadata.products) :
                      LET product_id == tasks[i].metadata.products[k][1]
                          quantity == tasks[i].metadata.products[k][2] IN
                      /\ Cardinality(Changed(product_id))
                            = IF Holders(product_id, quantity) = {} THEN 0 ELSE 1
                      /\ \A w \in Changed(product_id) :
                            /\ w \in Holders(product_id, quantity)
                            /\ Held(warehouses', w, product_id)
                                  = Held(warehouses, w, product_id) - quantity]_vars

\* a task of two lines has run: the line of P2 was served and logged, the
\* line of P1 was not, its 2 units being held 1 and 1 by the two product
\* warehouses, while the terminal warehouse holds P1 and a crane is registered
C34_witness ==
    /\ \E i \in 1..Len(tasks) :
          tasks[i].status = COMPLETED /\ Len(tasks[i].metadata.products) = 2
    /\ Len(execution_log) = 1 /\ execution_log[1].product = "P2"
    /\ "W2" \in Ids(warehouses) /\ Held(warehouses, "W2", "P1") >= 1
    /\ Held(warehouses, "W1", "P1") = 1 /\ Held(warehouses, "W3", "P1") = 1
    /\ equipment # <<>>


\* C35: in every state between commands the two references agree: for every
\* Busy equipment, the task named by its current_task_id exists, is Pending
\* or InProgress, and names that equipment as its assigned_equipment.
C35_references_agree ==
    \A e \in 1..Len(equipment) :
       equipment[e].status = BUSY
          => /\ equipment[e].current_task_id \in Ids(tasks)
             /\ LET task == Get(tasks, equipment[e].current_task_id) IN
                /\ task.status \in {PENDING, IN_PROGRESS}
                /\ task.assigned_equipment = equipment[e].id


\* C36: optimize_task_schedule never assigns equipment to a task that already
\* has assigned_equipment set: such a task is not in the returned schedule
\* and is left as it was, even when capable Idle equipment remains.
C36_assigned_task_not_rescheduled ==
    [][(optimize_task_schedule /\ ~ret'.raised)
         => \A i \in 1..Len(tasks) :
               tasks[i].assigned_equipment # NULL
                  => /\ tasks'[i] = tasks[i]
                     /\ \A j \in 1..Len(ret'.schedule) :
                           ret'.schedule[j] # tasks[i].id]_vars


\* C37: when execute_task has returned for a task of the store, the task is
\* Completed or Failed with its start_time and its end_time set, and no task
\* of the store is InProgress.
C37_never_left_in_progress ==
    [][\A i \in 1..Len(tasks), db_ok \in BOOLEAN :
          execute_task(tasks[i].id, db_ok)
             => /\ tasks'[i].status \in {COMPLETED, FAILED}
                /\ tasks'[i].start_time # NULL
                /\ tasks'[i].end_time # NULL
                /\ \A j \in 1..Len(tasks') : tasks'[j].status # IN_PROGRESS]_vars

\* one task has run to Completed and another to Failed, each with both times
C37_witness ==
    \E i, j \in 1..Len(tasks) :
       /\ tasks[i].status = COMPLETED /\ tasks[j].status = FAILED
       /\ tasks[i].start_time # NULL /\ tasks[i].end_time # NULL
       /\ tasks[j].start_time # NULL /\ tasks[j].end_time # NULL


\* C38: when a Loading task runs with a Crane assigned to it and the load
\* fits, the load is applied to the assigned crane, also when it is the only
\* crane registered.
C38_load_goes_to_assigned_crane ==
    [][\A i \in 1..Len(tasks) :
          (/\ execute_task(tasks[i].id, TRUE)
           /\ tasks[i].task_type = LOADING
           /\ tasks[i].assigned_equipment \in Ids(equipment)
           /\ Get(equipment, tasks[i].assigned_equipment).kind = Crane
           /\ tasks[i].metadata.product_id \in DOMAIN products
           /\ tasks[i].metadata.quantity > 0)
             => LET crane == Get(equipment, tasks[i].assigned_equipment)
                    w == products[tasks[i].metadata.product_id].weight
                            * tasks[i].metadata.quantity IN
                crane.current_load + w <= crane.capacity
                   => Get(equipment', crane.id).current_load = crane.current_load + w]_vars


\* C39, first half: a_star_path from the position of a registered Idle
\* equipment to a free cell next to it returns a non-empty path.
C39_routed_from_own_position ==
    [][\A e \in EquipmentInputs, goal \in GridCells :
          (/\ e[1] \in Ids(equipment)
           /\ Get(equipment, e[1]).status = IDLE
           /\ goal \notin obstacles
           /\ Adjacent(Get(equipment, e[1]).position, goal)
           /\ a_star_path(Get(equipment, e[1]).position, goal))
             => ret'.path # <<>>]_vars

\* C39: a registered Idle equipment can be routed from its own position:
\* a_star_path from the position of the equipment to a free cell next to it
\* returns a non-empty path, and after a successful move the obstacle set
\* marks the new cell of the equipment and no longer its old one.
C39_equipment_can_be_routed ==
    [][/\ \A e \in EquipmentInputs, goal \in GridCells :
             (/\ e[1] \in Ids(equipment)
              /\ Get(equipment, e[1]).status = IDLE
              /\ goal \notin obstacles
              /\ Adjacent(Get(equipment, e[1]).position, goal)
              /\ a_star_path(Get(equipment, e[1]).position, goal))
                => ret'.path # <<>>
       /\ \A e \in EquipmentInputs, c \in Cells :
             (move_to(e[1], c) /\ ret'.ok /\ Get(equipment, e[1]).position # c)
                => /\ c \in obstacles'
                   /\ Get(equipment, e[1]).position \notin obstacles']_vars

=============================================================================
